---- MODULE Spec2Model ----
(***************************************************************************)
(* Model of the monthly energy pipeline of leneda_monthly-stats:           *)
(*   get_monthly_data.py     MonthlyEnergyDataFetcher (fetch, persist)     *)
(*   analyse_monthly_data.py calculate_ratios (ratio derivation)           *)
(*                                                                         *)
(* Energy values are integers counted in thousandths of a kWh, so that the *)
(* code's round(2) is a real operation (rounding to a multiple of 10).     *)
(* OBIS codes are sequences of one-character strings, so that the code's   *)
(* split(':')[1][0] is computed on the characters.                         *)
(***************************************************************************)
EXTENDS Integers, Sequences, FiniteSets, TLC

VARIABLES
    config,             \* self.config: the loaded YAML (catalog and roster)
    consumption_codes,  \* self.consumption_codes
    production_codes,   \* self.production_codes
    phase,              \* position of main(): idle, fetching, fetched, saved, failed;
                        \* of a function examined on its own: call, return
    period,             \* calc_year, calc_month, start/end day of the run
    df_data,            \* the rows fetch_all_data has appended so far
    calls,              \* the fetch_metering_data calls issued by the run
    lastResponse,       \* what the remote API answered to the last call
    db,                 \* the SQLite file: metering_data and monthly_summaries
    dbBefore,           \* the file as it was when save_to_database connected
    saveOutcome,        \* how the last save_to_database call ended
    ratios,             \* what calculate_ratios returned to the dashboard
    wide_df,            \* what create_wide_format_dataframe returned last
    resolve_call        \* the clock and the arguments of a calculate_month_dates call

vars == <<config, consumption_codes, production_codes, phase, period, df_data,
          calls, lastResponse, db, dbBefore, saveOutcome, ratios, wide_df,
          resolve_call>>

(***************************************************************************)
(* Bounds of the model.                                                    *)
(***************************************************************************)
\* longest aggregatedTimeSeries array the remote API returns
MaxPoints == 2

\* values (thousandths of a kWh) the remote API reports in the first point
Values == {0, 30004}

\* what the resolver sees as datetime.now(), and the --year / --month arguments
Todays == {[year |-> 2025, month |-> 1, day |-> 15]}

(***************************************************************************)
(* OBIS codes, as the characters of the strings of configs/monthly.yaml.   *)
(***************************************************************************)
MeasuredConsumption == <<"1", "-", "1", ":", "1", ".", "2", "9", ".", "0">>
MeasuredProduction  == <<"1", "-", "1", ":", "2", ".", "2", "9", ".", "0">>
ReactiveEnergy      == <<"1", "-", "1", ":", "3", ".", "2", "9", ".", "0">>
SharedConsumption1  == <<"1", "-", "6", "5", ":", "1", ".", "2", "9", ".", "1">>
SharedConsumption2  == <<"1", "-", "6", "5", ":", "1", ".", "2", "9", ".", "2">>
SharedConsumption3  == <<"1", "-", "6", "5", ":", "1", ".", "2", "9", ".", "3">>
SharedConsumption4  == <<"1", "-", "6", "5", ":", "1", ".", "2", "9", ".", "4">>
RemainingConsumption == <<"1", "-", "6", "5", ":", "1", ".", "2", "9", ".", "9">>
SharedProduction1   == <<"1", "-", "6", "5", ":", "2", ".", "2", "9", ".", "1">>
SharedProduction2   == <<"1", "-", "6", "5", ":", "2", ".", "2", "9", ".", "2">>
SharedProduction3   == <<"1", "-", "6", "5", ":", "2", ".", "2", "9", ".", "3">>
SharedProduction4   == <<"1", "-", "6", "5", ":", "2", ".", "2", "9", ".", "4">>
RemainingProduction == <<"1", "-", "6", "5", ":", "2", ".", "2", "9", ".", "9">>
\* an OBIS code whose value group has two digits (absolute active energy)
AbsoluteEnergy      == <<"1", "-", "1", ":", "1", "5", ".", "8", ".", "0">>

\* str.split(sep): the segments of s between occurrences of the character sep
RECURSIVE Split(_, _)
Split(s, sep) ==
    IF \A i \in 1..Len(s) : s[i] # sep
    THEN <<s>>
    ELSE LET k == CHOOSE i \in 1..Len(s) :
                      s[i] = sep /\ \A j \in 1..(i - 1) : s[j] # sep
         IN  <<SubSeq(s, 1, k - 1)>> \o Split(SubSeq(s, k + 1, Len(s)), sep)

\* obis_code.split(':')[0][0]: the first character of the code
first_character(obis_code) == Split(obis_code, ":")[1][1]

\* obis_code.split(':')[1][0]: the first character after the first colon
first_digit(obis_code) == Split(obis_code, ":")[2][1]

\* the loop of __init__ over config['obiscode'], consumption side
ConsumptionCodes(cfg) ==
    SelectSeq(cfg.obiscode, LAMBDA obis_info : first_digit(obis_info[1]) = "1")

\* the loop of __init__ over config['obiscode'], production side
ProductionCodes(cfg) ==
    SelectSeq(cfg.obiscode, LAMBDA obis_info : first_digit(obis_info[1]) = "2")

(***************************************************************************)
(* Configurations: config['obiscode'] is a list of                         *)
(* [code, category, description]; the rosters are parallel lists of names  *)
(* and smart-meter ids.                                                    *)
(***************************************************************************)
Roster(names, smartmeters) == [names |-> names, smartmeters |-> smartmeters]

\* one consumer and one producer, one code each, and a code of neither category
ConfigMixed ==
    [obiscode  |-> << <<MeasuredConsumption, "Consumption", "Measured active consumption">>,
                      <<ReactiveEnergy, "Consumption", "Reactive energy">>,
                      <<MeasuredProduction, "Production", "Measured active production">> >>,
     consumers |-> Roster(<<"Alice">>, <<"LU01">>),
     producers |-> Roster(<<"Solar">>, <<"LU09">>)]

\* one consumer with the measured and the remaining-after-sharing code;
\* the names list is longer than the meters list, which zip truncates
ConfigConsumer ==
    [obiscode  |-> << <<MeasuredConsumption, "C", "Measured active consumption">>,
                      <<RemainingConsumption, "C", "Remaining consumption after sharing">> >>,
     consumers |-> Roster(<<"Alice", "Bob">>, <<"LU01">>),
     producers |-> Roster(<<>>, <<>>)]

\* one producer with the measured and the remaining-after-sharing code
ConfigProducer ==
    [obiscode  |-> << <<MeasuredProduction, "Production", "Measured active production">>,
                      <<RemainingProduction, "Production", "Remaining production after sharing">> >>,
     consumers |-> Roster(<<>>, <<>>),
     producers |-> Roster(<<"Solar">>, <<"LU09">>)]

\* a roster that lists the same smart meter twice
ConfigSameMeter ==
    [obiscode  |-> << <<MeasuredConsumption, "Consumption", "Measured active consumption">> >>,
     consumers |-> Roster(<<"Alice", "Bob">>, <<"LU01", "LU01">>),
     producers |-> Roster(<<>>, <<>>)]

\* one entity that owns two smart meters
ConfigTwoMeters ==
    [obiscode  |-> << <<SharedConsumption1, "Consumption", "Shared consumption layer 1">> >>,
     consumers |-> Roster(<<"Alice", "Alice">>, <<"LU01", "LU02">>),
     producers |-> Roster(<<>>, <<>>)]

\* two consumers with the measured and the remaining-after-sharing code
ConfigRatios ==
    [obiscode  |-> << <<MeasuredConsumption, "Consumption", "Measured active consumption">>,
                      <<RemainingConsumption, "Consumption", "Remaining consumption after sharing">> >>,
     consumers |-> Roster(<<"Alice", "Bob">>, <<"LU01", "LU02">>),
     producers |-> Roster(<<>>, <<>>)]

\* two consumers; the second code of the catalog has a two-digit value group
ConfigAbsolute ==
    [obiscode  |-> << <<MeasuredConsumption, "Consumption", "Measured active consumption">>,
                      <<AbsoluteEnergy, "Consumption", "Absolute active energy">> >>,
     consumers |-> Roster(<<"Alice", "Bob">>, <<"LU01", "LU02">>),
     producers |-> Roster(<<>>, <<>>)]

\* two consumers and one producer; the catalog lists the codes in another
\* order than the order of their strings
ConfigWide ==
    [obiscode  |-> << <<RemainingConsumption, "Consumption", "Remaining consumption after sharing">>,
                      <<MeasuredConsumption, "Consumption", "Measured active consumption">>,
                      <<SharedProduction1, "Production", "Shared production layer 1">>,
                      <<MeasuredProduction, "Production", "Measured active production">> >>,
     consumers |-> Roster(<<"Alice", "Bob">>, <<"LU01", "LU02">>),
     producers |-> Roster(<<"Solar">>, <<"LU09">>)]

\* a catalog whose free-text category disagrees with the structure of the code
ConfigMislabelled ==
    [obiscode  |-> << <<MeasuredConsumption, "Production", "Measured active consumption">> >>,
     consumers |-> Roster(<<"Alice">>, <<"LU01">>),
     producers |-> Roster(<<>>, <<>>)]

Configs == {ConfigMixed, ConfigConsumer, ConfigProducer, ConfigSameMeter, ConfigTwoMeters,
            ConfigMislabelled}

\* zip(names, smartmeters): pairs up to the shorter list
Zip(names, smartmeters) ==
    LET n == IF Len(names) < Len(smartmeters) THEN Len(names) ELSE Len(smartmeters)
    IN  [i \in 1..n |-> <<names[i], smartmeters[i]>>]

\* Concatenation of a sequence of sequences
RECURSIVE Flatten(_)
Flatten(ss) == IF ss = <<>> THEN <<>> ELSE Head(ss) \o Flatten(Tail(ss))

\* the (entity, code) pairs of one side, in the order of the nested loops
SidePlan(entity_type, roster, codes) ==
    LET entities == Zip(roster.names, roster.smartmeters)
    IN  Flatten([e \in 1..Len(entities) |->
                    [c \in 1..Len(codes) |->
                        [entity_type |-> entity_type,
                         entity_name |-> entities[e][1],
                         meter_id    |-> entities[e][2],
                         obis_info   |-> codes[c]]]])

\* the iteration order of fetch_all_data: consumers x consumption codes, then
\* producers x production codes
FetchPlan(cfg, cons_codes, prod_codes) ==
    SidePlan("consumer", cfg.consumers, cons_codes)
        \o SidePlan("producer", cfg.producers, prod_codes)

(***************************************************************************)
(* Optional values: Python's None, or a number.                            *)
(***************************************************************************)
None == [isNull |-> TRUE, num |-> 0]
Some(n) == [isNull |-> FALSE, num |-> n]

YearArgs == {None, Some(2024)}
MonthArgs == {None, Some(12)}

(***************************************************************************)
(* PeriodResolver: calculate_month_dates.                                  *)
(***************************************************************************)
\* a leap-year rule without the century exception
IsLeapJulian(year) == year % 4 = 0

\* calendar.isleap(year)
IsLeap(year) == (year % 4 = 0 /\ year % 100 # 0) \/ year % 400 = 0

\* calendar.monthrange(year, month)[1]
monthrange(year, month) ==
    IF month = 2 THEN (IF IsLeap(year) THEN 29 ELSE 28)
    ELSE IF month \in {4, 6, 9, 11} THEN 30 ELSE 31

\* (today.replace(day=1) - timedelta(days=1)).month
PreviousMonth(today) == IF today.month = 1 THEN 12 ELSE today.month - 1

\* a resolver that forgets the year of a December that lies before January
calculate_month_dates_same_year(today, year, month) ==
    LET month1 == IF month.isNull THEN PreviousMonth(today) ELSE month.num
        year2  == IF year.isNull THEN today.year ELSE year.num
    IN  IF month1 \notin 1..12
        THEN [raised |-> TRUE, year |-> year2, month |-> month1,
              start_day |-> 0, end_day |-> 0]
        ELSE [raised |-> FALSE, year |-> year2, month |-> month1,
              start_day |-> 1, end_day |-> monthrange(year2, month1)]

calculate_month_dates(today, year, month) ==
    LET month1 == IF month.isNull THEN PreviousMonth(today) ELSE month.num
        year1  == IF month.isNull /\ month1 = 12 /\ year.isNull
                  THEN Some(today.year - 1) ELSE year
        year2  == IF year1.isNull THEN today.year ELSE year1.num
    IN  IF month1 \notin 1..12
        THEN [raised |-> TRUE, year |-> year2, month |-> month1,
              start_day |-> 0, end_day |-> 0]
        ELSE [raised |-> FALSE, year |-> year2, month |-> month1,
              start_day |-> 1, end_day |-> monthrange(year2, month1)]

NoPeriod == [raised |-> FALSE, year |-> 0, month |-> 0, start_day |-> 0, end_day |-> 0]

\* no call of calculate_month_dates is under examination
NoCall == [today |-> [year |-> 0, month |-> 0, day |-> 0], year |-> None, month |-> None]

(***************************************************************************)
(* MeteringClient: what the remote API can answer, and fetch_metering_data *)
(***************************************************************************)
Point(v) == [hasValue |-> TRUE, value |-> v]
PointWithoutValue == [hasValue |-> FALSE, value |-> 0]
\* every point after the first one of a time series
OtherPoint == [hasValue |-> TRUE, value |-> 70000]

FirstPoints == {Point(v) : v \in Values} \cup {PointWithoutValue}

TimeSeries == {<<>>} \cup
    {[i \in 1..n |-> IF i = 1 THEN p ELSE OtherPoint] : n \in 1..MaxPoints, p \in FirstPoints}

\* a response body: not JSON at all, JSON that is no object (a list, null),
\* an object without the key, or an object with an aggregatedTimeSeries list
Body(valid, isObject, hasSeries, series) ==
    [valid |-> valid, isObject |-> isObject, hasSeries |-> hasSeries, series |-> series]
NoBody == Body(FALSE, FALSE, FALSE, <<>>)

Bodies == {NoBody, Body(TRUE, FALSE, FALSE, <<>>), Body(TRUE, TRUE, FALSE, <<>>)}
            \cup {Body(TRUE, TRUE, TRUE, s) : s \in TimeSeries}

Responses ==
    {[kind |-> k, status |-> 0, body |-> NoBody] : k \in {"timeout", "request_error"}}
      \cup {[kind |-> "http", status |-> s, body |-> NoBody] : s \in {404, 500}}
      \cup {[kind |-> "http", status |-> 200, body |-> b] : b \in Bodies}

NoResponse == [kind |-> "none", status |-> 0, body |-> NoBody]

\* the outcomes of fetch_metering_data: it returns None, returns the payload,
\* or lets an exception escape
ReturnNone == [tag |-> "None", data |-> NoBody]
ReturnData(data) == [tag |-> "data", data |-> data]
Raise == [tag |-> "raise", data |-> NoBody]

fetch_metering_data(response) ==
    IF response.kind = "timeout" THEN ReturnNone
    ELSE IF response.kind = "request_error" THEN ReturnNone
    ELSE IF response.status = 404 THEN ReturnNone
    ELSE IF response.status # 200 THEN ReturnNone
    ELSE IF ~response.body.valid THEN ReturnNone            \* JSONDecodeError, caught
    ELSE IF ~response.body.isObject THEN Raise              \* AttributeError on .get
    ELSE IF response.body.hasSeries /\ Len(response.body.series) > 0
         THEN ReturnData(response.body)
         ELSE ReturnNone

(***************************************************************************)
(* FetchOrchestrator: the row fetch_all_data appends for one pair.         *)
(***************************************************************************)
\* row['value'] = ts.get('value') of the first point
PointValue(ts) == IF ts.hasValue THEN Some(ts.value) ELSE None

MeteringRow(p, entry, result) ==
    LET filled == result.tag = "data"
                    /\ result.data.hasSeries /\ Len(result.data.series) > 0
    IN  [year             |-> p.year,
         month            |-> p.month,
         entity_type      |-> entry.entity_type,
         entity_name      |-> entry.entity_name,
         meter_id         |-> entry.meter_id,
         obis_code        |-> entry.obis_info[1],
         obis_category    |-> entry.obis_info[2],
         obis_description |-> entry.obis_info[3],
         value            |-> IF filled THEN PointValue(result.data.series[1]) ELSE None,
         data_available   |-> filled]

\* a fetch loop that keeps only the rows that carry data
AppendRowIfAvailable(df, row) == IF row.data_available THEN Append(df, row) ELSE df

\* df_data.append(row)
AppendRow(df, row) == Append(df, row)

(***************************************************************************)
(* PersistenceStore: the two tables and save_to_database.                  *)
(* A table is the sequence of its rows in rowid order, without the         *)
(* AUTOINCREMENT id and created_at columns; the nullable columns unit,     *)
(* started_at, ended_at, calculated and type take no part in any           *)
(* constraint and are left out.                                            *)
(***************************************************************************)
EmptyDb == [metering_data |-> <<>>, monthly_summaries |-> <<>>]

\* Series.round(2) / round(x, 2) on thousandths: to the nearest multiple of
\* 10, a tie going to the even hundredth
Round2(v) ==
    LET q == v \div 10
        r == v % 10
    IN  IF r < 5 THEN q * 10
        ELSE IF r > 5 THEN (q + 1) * 10
        ELSE IF q % 2 = 0 THEN q * 10 ELSE (q + 1) * 10

\* df_with_data['value'].round(2): NaN stays NaN
RoundValue(value) == IF value.isNull THEN value ELSE Some(Round2(value.num))

\* a frame whose missing values are filled with 0 instead of being dropped
DfFillNa(df) ==
    [i \in 1..Len(df) |->
        [df[i] EXCEPT !.value = IF @.isNull THEN Some(0) ELSE RoundValue(@),
                      !.data_available = TRUE]]

\* df[df['data_available'] == True] with the value column rounded
DfWithData(df) ==
    LET kept == SelectSeq(df, LAMBDA row : row.data_available)
    IN  [i \in 1..Len(kept) |-> [kept[i] EXCEPT !.value = RoundValue(kept[i].value)]]

\* a DELETE that matches no row
DeleteNothing(table, year, month) == table

\* a DELETE without its WHERE clause
DeleteAllRows(table, year, month) == <<>>

\* DELETE FROM <table> WHERE year = ? AND month = ?
DeletePeriod(table, year, month) ==
    SelectSeq(table, LAMBDA r : ~(r.year = year /\ r.month = month))

\* a metering_data table created without its UNIQUE clause
NoUniqueConstraint(table, row) == FALSE

\* UNIQUE(year, month, meter_id, obis_code) of metering_data
MeteringUniqueViolation(table, row) ==
    \E i \in 1..Len(table) :
        /\ table[i].year = row.year
        /\ table[i].month = row.month
        /\ table[i].meter_id = row.meter_id
        /\ table[i].obis_code = row.obis_code

\* value REAL NOT NULL of metering_data (sqlite3 binds None and NaN as NULL)
MeteringNotNullViolation(row) == row.value.isNull

\* one INSERT INTO metering_data: the table after it, or the IntegrityError
InsertMeteringData(table, row) ==
    IF MeteringNotNullViolation(row) \/ MeteringUniqueViolation(table, row)
    THEN [ok |-> FALSE, table |-> table]
    ELSE [ok |-> TRUE,
          table |-> Append(table,
                        [year             |-> row.year,
                         month            |-> row.month,
                         entity_type      |-> row.entity_type,
                         entity_name      |-> row.entity_name,
                         meter_id         |-> row.meter_id,
                         obis_code        |-> row.obis_code,
                         obis_category    |-> row.obis_category,
                         obis_description |-> row.obis_description,
                         value            |-> row.value.num])]

\* the loop "for _, row in df_with_data.iterrows()": stops at the first error
RECURSIVE InsertAllMeteringData(_, _)
InsertAllMeteringData(table, rows) ==
    IF rows = <<>> THEN [ok |-> TRUE, table |-> table]
    ELSE LET r == InsertMeteringData(table, Head(rows))
         IN  IF r.ok THEN InsertAllMeteringData(r.table, Tail(rows)) ELSE r

\* code point of a character of an OBIS code
CodePoint(c) ==
    CASE c = "-" -> 45 [] c = "." -> 46 [] c = "0" -> 48 [] c = "1" -> 49
      [] c = "2" -> 50 [] c = "3" -> 51 [] c = "4" -> 52 [] c = "5" -> 53
      [] c = "6" -> 54 [] c = "7" -> 55 [] c = "8" -> 56 [] c = "9" -> 57
      [] c = ":" -> 58

\* s < t for Python strings
RECURSIVE LexLess(_, _)
LexLess(s, t) ==
    IF t = <<>> THEN FALSE
    ELSE IF s = <<>> THEN TRUE
    ELSE IF CodePoint(Head(s)) # CodePoint(Head(t))
         THEN CodePoint(Head(s)) < CodePoint(Head(t))
         ELSE LexLess(Tail(s), Tail(t))

\* the group keys (obis_code, obis_category, obis_description) of the rows, in
\* order of first appearance
RECURSIVE GroupKeys(_)
GroupKeys(rows) ==
    IF rows = <<>> THEN <<>>
    ELSE LET init == GroupKeys(SubSeq(rows, 1, Len(rows) - 1))
             last == rows[Len(rows)]
             key  == <<last.obis_code, last.obis_category, last.obis_description>>
         IN  IF \E i \in 1..Len(init) : init[i] = key THEN init ELSE Append(init, key)

\* groupby sorts the groups by key; the keys are ordered by OBIS code here, and
\* keys of the same code keep their order of first appearance (two keys of one
\* code always end in the UNIQUE violation of monthly_summaries)
RECURSIVE SortKeys(_)
SortKeys(keys) ==
    IF keys = <<>> THEN <<>>
    ELSE LET m == CHOOSE i \in 1..Len(keys) :
                      /\ \A j \in 1..Len(keys) : ~LexLess(keys[j][1], keys[i][1])
                      /\ \A j \in 1..(i - 1) : LexLess(keys[i][1], keys[j][1])
             rest == [j \in 1..(Len(keys) - 1) |-> IF j < m THEN keys[j] ELSE keys[j + 1]]
         IN  <<keys[m]>> \o SortKeys(rest)

\* an aggregation that keeps the value of the first row of the group
FirstValue(rows) == IF rows = <<>> THEN 0 ELSE Head(rows).value.num

\* agg 'value': 'sum' of one group
RECURSIVE SumValues(_)
SumValues(rows) ==
    IF rows = <<>> THEN 0 ELSE Head(rows).value.num + SumValues(Tail(rows))

\* agg 'entity_name': 'nunique'
CountDistinctEntities(group) ==
    Cardinality({group[i].entity_name : i \in 1..Len(group)})

\* agg 'entity_name': 'count' of one group: its number of rows
CountEntityName(group) == Len(group)

\* df_with_data.groupby([...]).agg({'value': 'sum', 'entity_name': 'count'})
Summaries(df_with_data) ==
    LET keys == SortKeys(GroupKeys(df_with_data))
        Group(key) == SelectSeq(df_with_data, LAMBDA row :
                          <<row.obis_code, row.obis_category, row.obis_description>> = key)
    IN  [i \in 1..Len(keys) |->
            [obis_code        |-> keys[i][1],
             obis_category    |-> keys[i][2],
             obis_description |-> keys[i][3],
             total_value      |-> SumValues(Group(keys[i])),
             num_meters       |-> CountEntityName(Group(keys[i]))]]

\* UNIQUE(year, month, obis_code) of monthly_summaries
SummaryUniqueViolation(table, year, month, obis_code) ==
    \E i \in 1..Len(table) :
        /\ table[i].year = year
        /\ table[i].month = month
        /\ table[i].obis_code = obis_code

\* one INSERT INTO monthly_summaries
InsertSummary(table, row, year, month) ==
    IF SummaryUniqueViolation(table, year, month, row.obis_code)
    THEN [ok |-> FALSE, table |-> table]
    ELSE [ok |-> TRUE,
          table |-> Append(table,
                        [year             |-> year,
                         month            |-> month,
                         obis_code        |-> row.obis_code,
                         obis_category    |-> row.obis_category,
                         obis_description |-> row.obis_description,
                         total_value      |-> Round2(row.total_value),
                         num_meters       |-> row.num_meters])]

\* the loop "for _, row in summaries.iterrows()"
RECURSIVE InsertAllSummaries(_, _, _, _)
InsertAllSummaries(table, rows, year, month) ==
    IF rows = <<>> THEN [ok |-> TRUE, table |-> table]
    ELSE LET r == InsertSummary(table, Head(rows), year, month)
         IN  IF r.ok THEN InsertAllSummaries(r.table, Tail(rows), year, month) ELSE r

\* an error handler that commits what was written so far
KeepChanges(before, changed) == changed

\* conn.rollback(): the file is what it was when the transaction began
Rollback(before, changed) == before

\* the guard "if df_with_data.empty: return"
NothingToSave(df_with_data) == df_with_data = <<>>

\* a save that appends the frame to tables without constraints and never
\* deletes (df.to_sql(..., if_exists='append'))
save_to_database_append(store, df, year, month) ==
    LET df_with_data == DfWithData(df)
        summaries == Summaries(df_with_data)
    IN  IF NothingToSave(df_with_data)
        THEN [db |-> store, outcome |-> "no_data"]
        ELSE [db |-> [metering_data |-> store.metering_data \o
                          [i \in 1..Len(df_with_data) |->
                              [year             |-> df_with_data[i].year,
                               month            |-> df_with_data[i].month,
                               entity_type      |-> df_with_data[i].entity_type,
                               entity_name      |-> df_with_data[i].entity_name,
                               meter_id         |-> df_with_data[i].meter_id,
                               obis_code        |-> df_with_data[i].obis_code,
                               obis_category    |-> df_with_data[i].obis_category,
                               obis_description |-> df_with_data[i].obis_description,
                               value            |-> df_with_data[i].value.num]],
                      monthly_summaries |-> store.monthly_summaries \o
                          [i \in 1..Len(summaries) |->
                              [year             |-> year,
                               month            |-> month,
                               obis_code        |-> summaries[i].obis_code,
                               obis_category    |-> summaries[i].obis_category,
                               obis_description |-> summaries[i].obis_description,
                               total_value      |-> Round2(summaries[i].total_value),
                               num_meters       |-> summaries[i].num_meters]]],
              outcome |-> "committed"]

\* save_to_database(df, year, month) on the store: the store after the call
\* and how the call ended (committed, no_data: the early return, raised)
save_to_database(store, df, year, month) ==
    LET df_with_data == DfWithData(df)
    IN  IF NothingToSave(df_with_data)
        THEN [db |-> store, outcome |-> "no_data"]
        ELSE
        LET metering  == InsertAllMeteringData(
                             DeletePeriod(store.metering_data, year, month), df_with_data)
            summaries == IF metering.ok
                         THEN InsertAllSummaries(
                                  DeletePeriod(store.monthly_summaries, year, month),
                                  Summaries(df_with_data), year, month)
                         ELSE [ok |-> FALSE,
                               table |-> DeletePeriod(store.monthly_summaries, year, month)]
            changed   == [metering_data |-> metering.table,
                          monthly_summaries |-> summaries.table]
        IN  IF metering.ok /\ summaries.ok
            THEN [db |-> changed, outcome |-> "committed"]
            ELSE [db |-> Rollback(store, changed), outcome |-> "raised"]

(***************************************************************************)
(* WideFormatProjector: create_wide_format_dataframe.                      *)
(* A table is its code columns (the five identity columns come first and   *)
(* are fields of the rows) and its rows; a cell is a number or NaN (None). *)
(* The TOTAL and DESCRIPTION rows carry their name in the year column,     *)
(* which is the field label here; their identity fields are ''.            *)
(***************************************************************************)
\* pd.DataFrame(): no columns, no rows
EmptyTable == [columns |-> <<>>, consumption_cols |-> <<>>, production_cols |-> <<>>,
               rows |-> <<>>]

\* the strings of the rosters and entity types, in Python's string order
StringOrder == <<"Alice", "Bob", "LU01", "LU02", "LU09", "Solar", "consumer", "producer">>
StringRank(s) == CHOOSE i \in 1..Len(StringOrder) : StringOrder[i] = s

\* a < b for tuples of strings
RECURSIVE TupleLess(_, _)
TupleLess(a, b) ==
    IF b = <<>> THEN FALSE
    ELSE IF a = <<>> THEN TRUE
    ELSE IF Head(a) # Head(b) THEN StringRank(Head(a)) < StringRank(Head(b))
         ELSE TupleLess(Tail(a), Tail(b))

\* groupby's order of the group keys (no key twice): a key goes to the
\* place after the keys that are less than it
SortGroupKeys(keys) ==
    LET Rank(i) == 1 + Cardinality({j \in 1..Len(keys) : TupleLess(keys[j], keys[i])})
    IN  [k \in 1..Len(keys) |-> keys[CHOOSE i \in 1..Len(keys) : Rank(i) = k]]

\* the distinct items of a sequence, in order of first appearance
RECURSIVE Distinct(_)
Distinct(items) ==
    IF items = <<>> THEN <<>>
    ELSE LET init == Distinct(SubSeq(items, 1, Len(items) - 1))
             last == items[Len(items)]
         IN  IF \E i \in 1..Len(init) : init[i] = last THEN init ELSE Append(init, last)

\* col.startswith(prefix)
StartsWith(col, prefix) ==
    Len(col) >= Len(prefix) /\ SubSeq(col, 1, Len(prefix)) = prefix

\* part in col
Contains(col, part) ==
    \E i \in 1..(Len(col) - Len(part) + 1) : SubSeq(col, i, i + Len(part) - 1) = part

\* col.startswith('1-') and ':1.' in col
IsConsumptionCol(col) == StartsWith(col, <<"1", "-">>) /\ Contains(col, <<":", "1", ".">>)

\* col.startswith('1-') and ':2.' in col
IsProductionCol(col) == StartsWith(col, <<"1", "-">>) /\ Contains(col, <<":", "2", ".">>)

\* a mapping that takes the category, the middle element of the entry
CategoryOf(cfg, col) ==
    LET hits == SelectSeq(cfg.obiscode, LAMBDA obis_info : obis_info[1] = col)
    IN  IF hits = <<>> THEN "" ELSE hits[Len(hits)][2]

\* obis_descriptions: the description of the last catalog entry of the code,
\* '' when the catalog has none
DescriptionOf(cfg, col) ==
    LET hits == SelectSeq(cfg.obiscode, LAMBDA obis_info : obis_info[1] = col)
    IN  IF hits = <<>> THEN "" ELSE hits[Len(hits)][3]

\* row[obis_code] = value over the records of one group: the last record of
\* the code wins; a code the group has no record of is no key of the dict
GroupHas(group, col) == \E i \in 1..Len(group) : group[i].obis_code = col
GroupValue(group, col) ==
    LET hits == SelectSeq(group, LAMBDA record : record.obis_code = col)
    IN  hits[Len(hits)].value

\* columns left in the order in which pd.DataFrame(pivot_data) met them
UnsortedCols(cols) == cols

\* consumption_cols.sort() / production_cols.sort()
SortCols(cols) ==
    LET Rank(i) == 1 + Cardinality({j \in 1..Len(cols) : LexLess(cols[j], cols[i])})
    IN  [k \in 1..Len(cols) |-> cols[CHOOSE i \in 1..Len(cols) : Rank(i) = k]]

\* Series.sum(): NaN counts as nothing
RECURSIVE SumCells(_)
SumCells(cells) ==
    IF cells = <<>> THEN 0
    ELSE (IF Head(cells).isNull THEN 0 ELSE Head(cells).num) + SumCells(Tail(cells))

\* a total that takes the last data row in twice
ColumnSumLastTwice(rows, k) ==
    LET cells == [i \in 1..Len(rows) |-> rows[i].cells[k]]
    IN  Round2(SumCells(cells) + SumCells(SubSeq(cells, Len(cells), Len(cells))))

\* round(wide_df[col].sum(), 2): Series.sum skips NaN
ColumnSum(rows, k) ==
    Round2(SumCells([i \in 1..Len(rows) |-> rows[i].cells[k]]))

\* an emptiness test that forgets the data_available column
IsEmptyFrame(df) == df = <<>>

\* df.empty or not df['data_available'].any()
NothingAvailable(df) ==
    df = <<>> \/ ~(\E i \in 1..Len(df) : df[i].data_available)

create_wide_format_dataframe(cfg, df) ==
    IF NothingAvailable(df) THEN EmptyTable
    ELSE
    LET df_filtered == DfWithData(df)
        MeterOf(record) == <<record.entity_type, record.entity_name, record.meter_id>>
        \* groupby sorts its groups by key
        keys == SortGroupKeys(
                    Distinct([i \in 1..Len(df_filtered) |-> MeterOf(df_filtered[i])]))
        Group(key) == SelectSeq(df_filtered, LAMBDA record : MeterOf(record) = key)
        grouped == Flatten([g \in 1..Len(keys) |-> Group(keys[g])])
        \* pd.DataFrame(pivot_data): the keys of the dicts in the order met
        met == Distinct([i \in 1..Len(grouped) |-> grouped[i].obis_code])
        consumption_cols == SortCols(SelectSeq(met, IsConsumptionCol))
        production_cols == SortCols(SelectSeq(met, IsProductionCol))
        ordered_cols == consumption_cols \o production_cols
        \* reindex(columns=ordered_cols, fill_value=0): every column of
        \* ordered_cols is a column of the frame already, so no cell is filled;
        \* a key that a row's dict lacks is NaN
        data == [g \in 1..Len(keys) |->
                   [label          |-> "data",
                    entity_type    |-> keys[g][1],
                    name           |-> keys[g][2],
                    metering_point |-> keys[g][3],
                    year           |-> Group(keys[g])[1].year,
                    month          |-> Group(keys[g])[1].month,
                    cells          |-> [k \in 1..Len(ordered_cols) |->
                                          IF GroupHas(Group(keys[g]), ordered_cols[k])
                                          THEN GroupValue(Group(keys[g]), ordered_cols[k])
                                          ELSE None],
                    texts          |-> <<>>]]
        totals_row == [label |-> "TOTAL", entity_type |-> "", name |-> "",
                       metering_point |-> "", year |-> 0, month |-> 0,
                       cells |-> [k \in 1..Len(ordered_cols) |-> Some(ColumnSum(data, k))],
                       texts |-> <<>>]
        description_row ==
                      [label |-> "DESCRIPTION", entity_type |-> "", name |-> "",
                       metering_point |-> "", year |-> 0, month |-> 0,
                       cells |-> <<>>,
                       texts |-> [k \in 1..Len(ordered_cols) |->
                                     DescriptionOf(cfg, ordered_cols[k])]]
    IN  [columns |-> ordered_cols,
         consumption_cols |-> consumption_cols,
         production_cols |-> production_cols,
         rows |-> data \o <<totals_row, description_row>>]

(***************************************************************************)
(* RatioEngine: calculate_ratios of analyse_monthly_data.py.               *)
(***************************************************************************)
\* load_metering_data(year, month)
load_metering_data(store, year, month) ==
    IF year # 0 /\ month # 0
    THEN SelectSeq(store.metering_data, LAMBDA r : r.year = year /\ r.month = month)
    ELSE store.metering_data

\* category_map, applied when an abbreviated category occurs in the frame
MapCategories(df) ==
    IF \E i \in 1..Len(df) : df[i].obis_category \in {"C", "P"}
    THEN [i \in 1..Len(df) |->
            [df[i] EXCEPT !.obis_category =
                IF @ = "C" THEN "Consumption" ELSE IF @ = "P" THEN "Production" ELSE @]]
    ELSE df

RECURSIVE SumColumn(_)
SumColumn(rows) == IF rows = <<>> THEN 0 ELSE Head(rows).value + SumColumn(Tail(rows))

SumOfCategory(df, category) ==
    SumColumn(SelectSeq(df, LAMBDA r : r.obis_category = category))

SumOfCodes(df, codes) ==
    SumColumn(SelectSeq(df, LAMBDA r : r.obis_code \in codes))

\* a percentage cut off after two decimals instead of rounded
TruncatedPercent(n, d) == (n * 10000) \div d

\* round(n / d * 100, 2) in hundredths of a percent, for d > 0
RoundedPercent(n, d) ==
    LET x == n * 10000
        q == x \div d
        r == x % d
    IN  IF 2 * r < d THEN q
        ELSE IF 2 * r > d THEN q + 1
        ELSE IF q % 2 = 0 THEN q ELSE q + 1

\* a guard that reports a full share when there is nothing to divide by
RatioDefaultsToFull(n, d) == IF d > 0 THEN RoundedPercent(n, d) ELSE 10000

\* "round(n / d * 100, 2) if d > 0 else 0"
Ratio(n, d) == IF d > 0 THEN RoundedPercent(n, d) ELSE 0

NoRatios ==
    [called |-> FALSE, empty |-> TRUE, year |-> 0, month |-> 0,
     total_consumption |-> 0, total_production |-> 0,
     measured_consumption |-> 0, measured_production |-> 0,
     energy_bought |-> 0, energy_shared_consumption |-> 0,
     energy_shared_production |-> 0, energy_sold |-> 0,
     production_to_consumption_ratio |-> 0, self_consumption_ratio |-> 0,
     self_sufficiency_ratio |-> 0, energy_bought_ratio |-> 0, energy_sold_ratio |-> 0]

\* calculate_ratios(year, month): {} (empty) when the period has no rows
calculate_ratios(store, year, month) ==
    LET loaded == load_metering_data(store, year, month)
        df == MapCategories(loaded)
        total_consumption == SumOfCategory(df, "Consumption")
        total_production == SumOfCategory(df, "Production")
        measured_consumption == SumOfCodes(df, {MeasuredConsumption})
        energy_bought == SumOfCodes(df, {RemainingConsumption})
        energy_shared_consumption ==
            SumOfCodes(df, {SharedConsumption1, SharedConsumption2,
                            SharedConsumption3, SharedConsumption4})
        measured_production == SumOfCodes(df, {MeasuredProduction})
        energy_shared_production ==
            SumOfCodes(df, {SharedProduction1, SharedProduction2,
                            SharedProduction3, SharedProduction4})
        energy_sold == SumOfCodes(df, {RemainingProduction})
    IN  IF loaded = <<>>
        THEN [NoRatios EXCEPT !.called = TRUE, !.year = year, !.month = month]
        ELSE [called |-> TRUE, empty |-> FALSE, year |-> year, month |-> month,
              total_consumption |-> Round2(total_consumption),
              total_production |-> Round2(total_production),
              measured_consumption |-> Round2(measured_consumption),
              measured_production |-> Round2(measured_production),
              energy_bought |-> Round2(energy_bought),
              energy_shared_consumption |-> Round2(energy_shared_consumption),
              energy_shared_production |-> Round2(energy_shared_production),
              energy_sold |-> Round2(energy_sold),
              production_to_consumption_ratio |-> Ratio(total_production, total_consumption),
              self_consumption_ratio |-> Ratio(energy_shared_consumption, measured_consumption),
              self_sufficiency_ratio |->
                  Ratio(measured_consumption - energy_bought, measured_consumption),
              energy_bought_ratio |-> Ratio(energy_bought, measured_consumption),
              energy_sold_ratio |-> Ratio(energy_sold, measured_production)]

(***************************************************************************)
(* The state machine: runs of main() of get_monthly_data.py against one    *)
(* database file, and the dashboard reading that file between runs.        *)
(***************************************************************************)
Init ==
    /\ config \in Configs
    /\ consumption_codes = ConsumptionCodes(config)
    /\ production_codes = ProductionCodes(config)
    /\ phase = "idle"
    /\ period = NoPeriod
    /\ df_data = <<>>
    /\ calls = <<>>
    /\ lastResponse = NoResponse
    /\ db = EmptyDb
    /\ dbBefore = EmptyDb
    /\ saveOutcome = "none"
    /\ ratios = NoRatios
    /\ wide_df = EmptyTable
    /\ resolve_call = NoCall

Plan == FetchPlan(config, consumption_codes, production_codes)

\* main() up to the first API call: fetch_all_data resolves the period; with
\* nothing to fetch the frame has no columns and print_summary raises KeyError
StartRun(today, year, month) ==
    /\ phase = "idle"
    /\ LET p == calculate_month_dates(today, year, month)
       IN  /\ period' = p
           /\ phase' = IF p.raised \/ Plan = <<>> THEN "failed" ELSE "fetching"
    /\ df_data' = <<>>
    /\ calls' = <<>>
    /\ lastResponse' = NoResponse
    /\ saveOutcome' = "none"
    /\ ratios' = NoRatios
    /\ wide_df' = EmptyTable
    /\ UNCHANGED <<config, consumption_codes, production_codes, db, dbBefore,
                   resolve_call>>

\* one pass of the inner loop of fetch_all_data: one API call, one row; an
\* exception that escapes fetch_metering_data ends the run in main's handler;
\* after the last pass main() calls print_summary, which builds the wide table
FetchStep(response) ==
    /\ phase = "fetching"
    /\ LET entry  == Plan[Len(calls) + 1]
           result == fetch_metering_data(response)
       IN  /\ calls' = Append(calls, [entity_type |-> entry.entity_type,
                                      meter_id    |-> entry.meter_id,
                                      obis_code   |-> entry.obis_info[1]])
           /\ lastResponse' = response
           /\ IF result.tag = "raise"
              THEN /\ phase' = "failed"
                   /\ df_data' = df_data
                   /\ wide_df' = wide_df
              ELSE /\ df_data' = AppendRow(df_data, MeteringRow(period, entry, result))
                   /\ phase' = IF Len(calls) + 1 = Len(Plan) THEN "fetched" ELSE "fetching"
                   /\ wide_df' = IF Len(calls) + 1 = Len(Plan)
                                 THEN create_wide_format_dataframe(config, df_data')
                                 ELSE wide_df
    /\ UNCHANGED <<config, consumption_codes, production_codes, period, db,
                   dbBefore, saveOutcome, ratios, resolve_call>>

\* a main() that saves the frame whenever rows exist, also between two fetches
SaveToDatabaseEarly ==
    /\ phase \in {"fetching", "fetched"}
    /\ LET r == save_to_database(db, df_data, period.year, period.month)
       IN  /\ db' = r.db
           /\ dbBefore' = db
           /\ saveOutcome' = r.outcome
           /\ phase' = IF r.outcome = "raised" THEN "failed" ELSE "saved"
    /\ UNCHANGED <<config, consumption_codes, production_codes, period, df_data,
                   calls, lastResponse, ratios, wide_df, resolve_call>>

\* main() after fetch_all_data returned: save_to_database(df, calc_year, calc_month)
SaveToDatabase ==
    /\ phase = "fetched"
    /\ LET r == save_to_database(db, df_data, period.year, period.month)
       IN  /\ db' = r.db
           /\ dbBefore' = db
           /\ saveOutcome' = r.outcome
           /\ phase' = IF r.outcome = "raised" THEN "failed" ELSE "saved"
    /\ UNCHANGED <<config, consumption_codes, production_codes, period, df_data,
                   calls, lastResponse, ratios, wide_df, resolve_call>>

\* the process ends (return df, or sys.exit(1)): only the database file stays
Exit ==
    /\ phase \in {"saved", "failed"}
    /\ phase' = "idle"
    /\ period' = NoPeriod
    /\ df_data' = <<>>
    /\ calls' = <<>>
    /\ lastResponse' = NoResponse
    /\ saveOutcome' = "none"
    /\ dbBefore' = EmptyDb
    /\ wide_df' = EmptyTable
    /\ UNCHANGED <<config, consumption_codes, production_codes, db, ratios,
                   resolve_call>>

\* the dashboard asks for the ratios of a month between two runs
CalculateRatios(year, month) ==
    /\ phase = "idle"
    /\ ratios' = calculate_ratios(db, year, month)
    /\ UNCHANGED <<config, consumption_codes, production_codes, phase, period,
                   df_data, calls, lastResponse, db, dbBefore, saveOutcome, wide_df,
                   resolve_call>>

\* the months the dashboard can ask for
DashboardPeriods == {<<2024, 12>>, <<2025, 12>>}

Next ==
    \/ \E today \in Todays, year \in YearArgs, month \in MonthArgs :
           StartRun(today, year, month)
    \/ \E response \in Responses : FetchStep(response)
    \/ SaveToDatabase
    \/ Exit
    \/ \E p \in DashboardPeriods : CalculateRatios(p[1], p[2])

Spec == Init /\ [][Next]_vars

(***************************************************************************)
(* create_wide_format_dataframe on its own: the frame is any record set    *)
(* fetch_all_data can return for the configuration, each (entity, code)    *)
(* pair being unavailable or carrying one of two readings.                 *)
(***************************************************************************)
WideConfigs == {ConfigWide, ConfigMixed, ConfigAbsolute}

\* what fetch_metering_data returned for one pair
WideOutcomes ==
    {ReturnNone} \cup
    {ReturnData(Body(TRUE, TRUE, TRUE, <<Point(v)>>)) : v \in {30004, 12000}}

WidePeriod == calculate_month_dates([year |-> 2025, month |-> 1, day |-> 15], None, None)

\* the frames fetch_all_data can return under cfg
RecordSets(cfg) ==
    LET plan == FetchPlan(cfg, ConsumptionCodes(cfg), ProductionCodes(cfg))
    IN  {[i \in 1..Len(plan) |-> MeteringRow(WidePeriod, plan[i], outcome[i])] :
            outcome \in [1..Len(plan) -> WideOutcomes]}

WideInit ==
    /\ config \in WideConfigs
    /\ consumption_codes = ConsumptionCodes(config)
    /\ production_codes = ProductionCodes(config)
    /\ phase = "call"
    /\ period = WidePeriod
    /\ df_data \in RecordSets(config)
    /\ calls = <<>>
    /\ lastResponse = NoResponse
    /\ db = EmptyDb
    /\ dbBefore = EmptyDb
    /\ saveOutcome = "none"
    /\ ratios = NoRatios
    /\ wide_df = EmptyTable
    /\ resolve_call = NoCall

\* wide_df = self.create_wide_format_dataframe(df)
CreateWideFormat ==
    /\ phase = "call"
    /\ wide_df' = create_wide_format_dataframe(config, df_data)
    /\ phase' = "return"
    /\ UNCHANGED <<config, consumption_codes, production_codes, period, df_data,
                   calls, lastResponse, db, dbBefore, saveOutcome, ratios,
                   resolve_call>>

WideNext == CreateWideFormat

SpecWide == WideInit /\ [][WideNext]_vars

(***************************************************************************)
(* calculate_month_dates on its own: any day of two years (one of them a   *)
(* leap year) as datetime.now(), the year omitted or given (1900 and 2000  *)
(* are the century years), the month omitted or given, also outside 1..12. *)
(***************************************************************************)
ResolverTodays ==
    {[year |-> y, month |-> m, day |-> d] : y \in {2023, 2024}, m \in 1..12, d \in {1, 28}}
ResolverYears == {None} \cup {Some(y) : y \in {1900, 2000, 2023, 2024}}
ResolverMonths == {None} \cup {Some(m) : m \in 0..13}

ResolverInit ==
    /\ config = ConfigMixed
    /\ consumption_codes = ConsumptionCodes(config)
    /\ production_codes = ProductionCodes(config)
    /\ phase = "call"
    /\ period = NoPeriod
    /\ df_data = <<>>
    /\ calls = <<>>
    /\ lastResponse = NoResponse
    /\ db = EmptyDb
    /\ dbBefore = EmptyDb
    /\ saveOutcome = "none"
    /\ ratios = NoRatios
    /\ wide_df = EmptyTable
    /\ resolve_call \in [today : ResolverTodays, year : ResolverYears,
                         month : ResolverMonths]

\* start_date, end_date, calc_year, calc_month = self.calculate_month_dates(year, month)
ResolvePeriod ==
    /\ phase = "call"
    /\ period' = calculate_month_dates(resolve_call.today, resolve_call.year,
                                       resolve_call.month)
    /\ phase' = "return"
    /\ UNCHANGED <<config, consumption_codes, production_codes, df_data, calls,
                   lastResponse, db, dbBefore, saveOutcome, ratios, wide_df,
                   resolve_call>>

ResolverNext == ResolvePeriod

SpecResolver == ResolverInit /\ [][ResolverNext]_vars

(***************************************************************************)
(* calculate_ratios on its own: the database holds what one run stored for *)
(* one month, each (entity, code) pair being unavailable or carrying a     *)
(* reading; the remote API is not kept from reporting a negative value.    *)
(***************************************************************************)
RatioOutcomes ==
    {ReturnNone} \cup
    {ReturnData(Body(TRUE, TRUE, TRUE, <<Point(v)>>)) : v \in {100000, 30000, 10004, -4000}}

\* the frames fetch_all_data can return under ConfigRatios
RatioRecordSets ==
    LET plan == FetchPlan(ConfigRatios, ConsumptionCodes(ConfigRatios),
                          ProductionCodes(ConfigRatios))
    IN  {[i \in 1..Len(plan) |-> MeteringRow(WidePeriod, plan[i], outcome[i])] :
            outcome \in [1..Len(plan) -> RatioOutcomes]}

RatiosInit ==
    /\ config = ConfigRatios
    /\ consumption_codes = ConsumptionCodes(config)
    /\ production_codes = ProductionCodes(config)
    /\ phase = "call"
    /\ period = WidePeriod
    /\ df_data \in RatioRecordSets
    /\ calls = <<>>
    /\ lastResponse = NoResponse
    /\ db = save_to_database(EmptyDb, df_data, period.year, period.month).db
    /\ dbBefore = EmptyDb
    /\ saveOutcome = "none"
    /\ ratios = NoRatios
    /\ wide_df = EmptyTable
    /\ resolve_call = NoCall

\* ratios = calculate_ratios(year, month)
RatiosCall(year, month) ==
    /\ phase = "call"
    /\ ratios' = calculate_ratios(db, year, month)
    /\ phase' = "return"
    /\ UNCHANGED <<config, consumption_codes, production_codes, period, df_data,
                   calls, lastResponse, db, dbBefore, saveOutcome, wide_df,
                   resolve_call>>

RatiosNext == \E p \in DashboardPeriods : RatiosCall(p[1], p[2])

SpecRatios == RatiosInit /\ [][RatiosNext]_vars

(***************************************************************************)
(* Vocabulary of the properties below.                                     *)
(***************************************************************************)
\* the rows of a table that belong to the period of the run
InPeriod(table) ==
    SelectSeq(table, LAMBDA r : r.year = period.year /\ r.month = period.month)

\* the input records with available = true
AvailableInput == SelectSeq(df_data, LAMBDA row : row.data_available)

\* save_to_database has returned or raised in this run
SaveEnded == saveOutcome # "none"

\* stored is the input value at two decimal places
IsRounded2(stored, input) == stored % 10 = 0 /\ (stored - input) \in -5..5

\* the detail row was written from the input record
WrittenFrom(r, row) ==
    /\ row.data_available
    /\ ~row.value.isNull
    /\ r.year = row.year /\ r.month = row.month
    /\ r.entity_type = row.entity_type /\ r.entity_name = row.entity_name
    /\ r.meter_id = row.meter_id /\ r.obis_code = row.obis_code
    /\ r.obis_category = row.obis_category
    /\ r.obis_description = row.obis_description
    /\ IsRounded2(r.value, row.value.num)

\* the store holds for the period of the run only rows of the new input
OnlyNewInput(store) ==
    /\ \A i \in 1..Len(InPeriod(store.metering_data)) :
           \E j \in 1..Len(df_data) :
               WrittenFrom(InPeriod(store.metering_data)[i], df_data[j])
    /\ \A i \in 1..Len(InPeriod(store.monthly_summaries)) :
           \E j \in 1..Len(AvailableInput) :
               AvailableInput[j].obis_code = InPeriod(store.monthly_summaries)[i].obis_code

\* an INSERT of the call must fail: an available record without a value, or
\* two available records of one meter and code
InsertMustFail ==
    \/ \E j \in 1..Len(AvailableInput) : AvailableInput[j].value.isNull
    \/ \E j, k \in 1..Len(AvailableInput) :
           /\ j # k
           /\ AvailableInput[j].meter_id = AvailableInput[k].meter_id
           /\ AvailableInput[j].obis_code = AvailableInput[k].obis_code

(***************************************************************************)
(* C1  Idempotence of save_to_database: once a call has ended, calling it  *)
(* again with the same records and period leaves both tables as they are.  *)
(***************************************************************************)
C1_Idempotent ==
    SaveEnded =>
        save_to_database(db, df_data, period.year, period.month).db = db

\* a committed call that replaced rows of its period, next to another period
C1_Witness ==
    /\ saveOutcome = "committed"
    /\ InPeriod(dbBefore.metering_data) # <<>>
    /\ Len(InPeriod(db.metering_data)) < Len(db.metering_data)
    /\ save_to_database(db, df_data, period.year, period.month).outcome = "committed"

(***************************************************************************)
(* C2  Replace semantics as claimed: after every call that returns, also   *)
(* one whose records are all unavailable, the period holds only rows of    *)
(* the new input.                                                          *)
(***************************************************************************)
C2_Original ==
    saveOutcome \in {"committed", "no_data"} => OnlyNewInput(db)

(***************************************************************************)
(* C2  amended: a call with at least one available record that commits     *)
(* leaves for its period only rows of the new input; a call without any    *)
(* available record returns early and leaves the store untouched.          *)
(***************************************************************************)
C2_ReplaceOnCommit ==
    /\ saveOutcome = "committed" => AvailableInput # <<>> /\ OnlyNewInput(db)
    /\ (SaveEnded /\ AvailableInput = <<>>) => saveOutcome = "no_data" /\ db = dbBefore

\* a committed call after which a meter stored earlier for the period is gone
C2_Witness ==
    /\ saveOutcome = "committed"
    /\ \E i \in 1..Len(InPeriod(dbBefore.metering_data)) :
           \A j \in 1..Len(db.metering_data) :
               db.metering_data[j].meter_id # InPeriod(dbBefore.metering_data)[i].meter_id

(***************************************************************************)
(* C3  Atomicity: when an INSERT of the call fails after the deletes have  *)
(* run, both tables are what they were before the call and the error       *)
(* reaches the caller (main ends in its handler).                          *)
(***************************************************************************)
C3_Atomic ==
    /\ (SaveEnded /\ InsertMustFail) => saveOutcome = "raised"
    /\ saveOutcome = "raised" => db = dbBefore /\ phase = "failed"

\* a failed call on a period that had rows: the deletes had something to undo
C3_Witness ==
    /\ saveOutcome = "raised"
    /\ InsertMustFail
    /\ InPeriod(db.metering_data) # <<>>
    /\ InPeriod(db.monthly_summaries) # <<>>

(***************************************************************************)
(* C4  Uniqueness: the store never holds two detail rows of one            *)
(* (year, month, meter_id, obis_code) nor two summaries of one             *)
(* (year, month, obis_code).                                               *)
(***************************************************************************)
C4_Unique ==
    /\ \A i, j \in 1..Len(db.metering_data) :
           (/\ db.metering_data[i].year = db.metering_data[j].year
            /\ db.metering_data[i].month = db.metering_data[j].month
            /\ db.metering_data[i].meter_id = db.metering_data[j].meter_id
            /\ db.metering_data[i].obis_code = db.metering_data[j].obis_code) => i = j
    /\ \A i, j \in 1..Len(db.monthly_summaries) :
           (/\ db.monthly_summaries[i].year = db.monthly_summaries[j].year
            /\ db.monthly_summaries[i].month = db.monthly_summaries[j].month
            /\ db.monthly_summaries[i].obis_code = db.monthly_summaries[j].obis_code) => i = j

\* a roster that lists one meter twice delivered two values for it, and the
\* store, which already held that meter for the period, kept its single row
C4_Witness ==
    /\ saveOutcome = "raised"
    /\ \E j, k \in 1..Len(AvailableInput) :
           /\ j # k
           /\ AvailableInput[j].meter_id = AvailableInput[k].meter_id
           /\ AvailableInput[j].obis_code = AvailableInput[k].obis_code
           /\ ~AvailableInput[j].value.isNull /\ ~AvailableInput[k].value.isNull
    /\ Len(InPeriod(db.metering_data)) = 1

AvailableOfCode(obis_code) ==
    {j \in 1..Len(AvailableInput) : AvailableInput[j].obis_code = obis_code}

NumEntities(roster) ==
    IF Len(roster.names) < Len(roster.smartmeters)
    THEN Len(roster.names) ELSE Len(roster.smartmeters)

\* |consumers| x |consumption codes| + |producers| x |production codes|
ExpectedRecords ==
    NumEntities(config.consumers) * Len(consumption_codes)
        + NumEntities(config.producers) * Len(production_codes)

\* call number n of the run is for entity e of the roster and code c of codes
CallIsFor(n, entity_type, roster, e, codes, c) ==
    /\ calls[n].entity_type = entity_type
    /\ calls[n].meter_id = roster.smartmeters[e]
    /\ calls[n].obis_code = codes[c][1]
    /\ df_data[n].entity_name = roster.names[e]

(***************************************************************************)
(* C7  Record-count determinism: fetch_all_data issues one call per        *)
(* (entity, applicable code) pair, never more calls than pairs, and emits  *)
(* one record per call, so a finished run has                              *)
(* |consumers| x |consumption codes| + |producers| x |production codes|    *)
(* records whatever the calls answered.                                    *)
(***************************************************************************)
C7_RecordCount ==
    /\ Len(calls) <= ExpectedRecords
    /\ phase \in {"fetching", "fetched", "saved"} =>
           /\ Len(df_data) = Len(calls)
           /\ \A n \in 1..Len(calls) :
                  /\ df_data[n].meter_id = calls[n].meter_id
                  /\ df_data[n].obis_code = calls[n].obis_code
                  /\ df_data[n].entity_type = calls[n].entity_type
    /\ phase \in {"fetched", "saved"} =>
           /\ Len(df_data) = ExpectedRecords
           /\ \A e \in 1..NumEntities(config.consumers), c \in 1..Len(consumption_codes) :
                  CallIsFor((e - 1) * Len(consumption_codes) + c,
                            "consumer", config.consumers, e, consumption_codes, c)
           /\ \A e \in 1..NumEntities(config.producers), c \in 1..Len(production_codes) :
                  CallIsFor(NumEntities(config.consumers) * Len(consumption_codes)
                                + (e - 1) * Len(production_codes) + c,
                            "producer", config.producers, e, production_codes, c)

\* a finished fetch in which one call timed out and another one delivered
C7_Witness ==
    /\ phase = "fetched"
    /\ lastResponse.kind = "timeout"
    /\ AvailableInput # <<>>
    /\ Len(df_data) = 2

\* the character that follows the first colon of a code
DigitAfterColon(code) ==
    code[1 + CHOOSE k \in 1..Len(code) :
                 code[k] = ":" /\ \A j \in 1..(k - 1) : code[j] # ":"]

RoutedDigit(entity_type) == IF entity_type = "consumer" THEN "1" ELSE "2"

(***************************************************************************)
(* C8  Category routing: every call and every record of a consumer uses a  *)
(* code whose first character after the first colon is '1', every call     *)
(* and record of a producer one whose character is '2'.                    *)
(***************************************************************************)
C8_Routing ==
    /\ \A n \in 1..Len(calls) :
           /\ calls[n].entity_type \in {"consumer", "producer"}
           /\ DigitAfterColon(calls[n].obis_code) = RoutedDigit(calls[n].entity_type)
    /\ \A n \in 1..Len(df_data) :
           /\ df_data[n].entity_type \in {"consumer", "producer"}
           /\ DigitAfterColon(df_data[n].obis_code) = RoutedDigit(df_data[n].entity_type)

\* a finished fetch with a consumer call and a producer call, under a catalog
\* that also lists a code of neither category
C8_Witness ==
    /\ phase = "fetched"
    /\ \E i \in 1..Len(config.obiscode) : DigitAfterColon(config.obiscode[i][1]) = "3"
    /\ \E n \in 1..Len(calls) : calls[n].entity_type = "consumer"
    /\ \E n \in 1..Len(calls) : calls[n].entity_type = "producer"

\* the API answered with a reading: HTTP 200, a JSON object, a non-empty series
IsReading(response) ==
    /\ response.kind = "http" /\ response.status = 200
    /\ response.body.valid /\ response.body.isObject
    /\ response.body.hasSeries /\ response.body.series # <<>>

(***************************************************************************)
(* C9  Fetch failures are non-fatal, as claimed: whenever the last call    *)
(* was answered by anything but a reading (404, another status, timeout,   *)
(* network error, empty series, malformed payload), the pair is recorded   *)
(* with available = false and the run goes on.                             *)
(***************************************************************************)
C9_Claim ==
    (lastResponse # NoResponse /\ ~IsReading(lastResponse) /\ ~SaveEnded) =>
        /\ phase # "failed"
        /\ Len(df_data) = Len(calls)
        /\ ~df_data[Len(df_data)].data_available

\* the rows of the month the ratios were asked for that satisfy Pick
AskedRows(Pick(_)) ==
    {n \in 1..Len(db.metering_data) :
        /\ db.metering_data[n].year = ratios.year
        /\ db.metering_data[n].month = ratios.month
        /\ Pick(db.metering_data[n])}

\* the sum of the stored values of a set of rows
RECURSIVE StoredSum(_)
StoredSum(rows) ==
    IF rows = {} THEN 0
    ELSE LET n == CHOOSE n \in rows : TRUE
         IN  db.metering_data[n].value + StoredSum(rows \ {n})

MeasuredConsumptionStored ==
    StoredSum(AskedRows(LAMBDA r : r.obis_code = MeasuredConsumption))
MeasuredProductionStored ==
    StoredSum(AskedRows(LAMBDA r : r.obis_code = MeasuredProduction))
TotalConsumptionStored ==
    StoredSum(AskedRows(LAMBDA r : r.obis_category \in {"Consumption", "C"}))

(***************************************************************************)
(* C10  Ratio zero-guard: every ratio calculate_ratios returns whose       *)
(* denominator is zero is 0: measured consumption 0 forces                 *)
(* self_consumption, self_sufficiency and energy_bought_ratio to 0, total  *)
(* consumption 0 forces production_to_consumption to 0, measured           *)
(* production 0 forces energy_sold_ratio to 0.                             *)
(***************************************************************************)
C10_ZeroGuard ==
    (ratios.called /\ ~ratios.empty) =>
        /\ MeasuredConsumptionStored = 0 =>
               /\ ratios.self_consumption_ratio = 0
               /\ ratios.self_sufficiency_ratio = 0
               /\ ratios.energy_bought_ratio = 0
        /\ TotalConsumptionStored = 0 => ratios.production_to_consumption_ratio = 0
        /\ MeasuredProductionStored = 0 => ratios.energy_sold_ratio = 0

\* ratios of a month with rows in which nothing was measured but energy was
\* bought: a zero denominator under a non-zero numerator
C10_Witness ==
    /\ ratios.called /\ ~ratios.empty
    /\ MeasuredConsumptionStored = 0
    /\ ratios.energy_bought > 0
    /\ ratios.self_sufficiency_ratio = 0

(***************************************************************************)
(* Vocabulary of the properties of the functions examined on their own.    *)
(***************************************************************************)
\* the function under examination has returned
Returned == phase = "return"

\* the rows of the wide table that stand for a metering point
DataRows == SelectSeq(wide_df.rows, LAMBDA r : r.label = "data")

\* the codes the catalog routes to a side, which fetch_all_data asks for
FetchedCodes ==
    {consumption_codes[i][1] : i \in 1..Len(consumption_codes)}
        \cup {production_codes[i][1] : i \in 1..Len(production_codes)}

\* the input has an available record of the metering point of row r and the code
HasAvailableRecord(r, code) ==
    \E i \in 1..Len(df_data) :
        /\ df_data[i].data_available
        /\ df_data[i].entity_type = r.entity_type
        /\ df_data[i].entity_name = r.name
        /\ df_data[i].meter_id = r.metering_point
        /\ df_data[i].obis_code = code

\* the sum of column k over the rows whose index is in the set, NaN as nothing
RECURSIVE CellSum(_, _)
CellSum(indices, k) ==
    IF indices = {} THEN 0
    ELSE LET i == CHOOSE x \in indices : TRUE
             cell == wide_df.rows[i].cells[k]
         IN  (IF cell.isNull THEN 0 ELSE cell.num) + CellSum(indices \ {i}, k)

DataRowIndices == {i \in 1..Len(wide_df.rows) : wide_df.rows[i].label = "data"}

(***************************************************************************)
(* C12  Wide-format completeness, as claimed: every data row has a number  *)
(* in every code column, every code the catalog asks for is a column, and  *)
(* a metering point without an available record of a code shows 0 there.   *)
(***************************************************************************)
C12_Claim ==
    Returned /\ wide_df.rows # <<>> =>
        \A i \in 1..Len(DataRows) :
            /\ \A k \in 1..Len(wide_df.columns) : ~DataRows[i].cells[k].isNull
            /\ \A code \in FetchedCodes :
                   \E k \in 1..Len(wide_df.columns) :
                       /\ wide_df.columns[k] = code
                       /\ ~HasAvailableRecord(DataRows[i], code)
                              => DataRows[i].cells[k] = Some(0)

(***************************************************************************)
(* C13  TOTAL row correctness: in a returned table every cell of the TOTAL *)
(* row is the sum of its column over the data rows only.                   *)
(***************************************************************************)
C13_TotalRow ==
    Returned =>
        \A i \in 1..Len(wide_df.rows) :
            wide_df.rows[i].label = "TOTAL" =>
                \A k \in 1..Len(wide_df.columns) :
                    wide_df.rows[i].cells[k] = Some(CellSum(DataRowIndices, k))

\* a returned table one column of which has a reading in two data rows
C13_Witness ==
    /\ Returned
    /\ \E k \in 1..Len(wide_df.columns) :
           /\ Cardinality({i \in DataRowIndices : ~wide_df.rows[i].cells[k].isNull}) >= 2
           /\ \E t \in 1..Len(wide_df.rows) :
                  /\ wide_df.rows[t].label = "TOTAL"
                  /\ wide_df.rows[t].cells[k].num > 30000

(***************************************************************************)
(* C14  Empty projection: the returned table has zero rows exactly when    *)
(* the input has no available record; otherwise it has one TOTAL and one   *)
(* DESCRIPTION row.                                                        *)
(***************************************************************************)
C14_EmptyProjection ==
    Returned =>
        /\ (wide_df.rows = <<>>) <=> (AvailableInput = <<>>)
        /\ AvailableInput # <<>> =>
               /\ Cardinality({i \in 1..Len(wide_df.rows) :
                                  wide_df.rows[i].label = "TOTAL"}) = 1
               /\ Cardinality({i \in 1..Len(wide_df.rows) :
                                  wide_df.rows[i].label = "DESCRIPTION"}) = 1

\* a frame of unavailable records only was projected to the empty table
C14_Witness ==
    /\ Returned
    /\ Len(df_data) >= 2
    /\ AvailableInput = <<>>
    /\ wide_df = EmptyTable

(***************************************************************************)
(* C15  Column order: the code columns are the consumption codes in        *)
(* ascending order of their strings, then the production codes in          *)
(* ascending order; no production code precedes a consumption code and no  *)
(* code is a column twice.                                                 *)
(***************************************************************************)
C15_ColumnOrder ==
    Returned =>
        LET cols == wide_df.columns
        IN  /\ \A i \in 1..Len(cols) : first_digit(cols[i]) \in {"1", "2"}
            /\ \A i, j \in 1..Len(cols) :
                   i < j =>
                       /\ ~(first_digit(cols[i]) = "2" /\ first_digit(cols[j]) = "1")
                       /\ first_digit(cols[i]) = first_digit(cols[j])
                              => LexLess(cols[i], cols[j])
                       /\ cols[i] # cols[j]

\* a returned table with two columns in each block
C15_Witness ==
    /\ Returned
    /\ Len(wide_df.consumption_cols) = 2
    /\ Len(wide_df.production_cols) = 2
    /\ wide_df.columns = <<MeasuredConsumption, RemainingConsumption,
                           MeasuredProduction, SharedProduction1>>

(***************************************************************************)
(* C16  Default period resolution: with the month omitted the resolved     *)
(* month is the one before today's; the year is today's year minus one if  *)
(* that month is December and the year was omitted too, and otherwise an   *)
(* omitted year is today's year; with both omitted the result is the       *)
(* calendar month just before today's.                                     *)
(***************************************************************************)
C16_DefaultPeriod ==
    Returned =>
        LET today == resolve_call.today
            noYear == resolve_call.year.isNull
            noMonth == resolve_call.month.isNull
        IN  /\ noMonth => /\ ~period.raised
                          /\ period.month = ((today.month + 10) % 12) + 1
            /\ (noMonth /\ noYear /\ period.month = 12) => period.year = today.year - 1
            /\ (noYear /\ ~(noMonth /\ period.month = 12)) => period.year = today.year
            /\ (noMonth /\ noYear) =>
                   12 * period.year + period.month = 12 * today.year + today.month - 1

\* both arguments omitted on a day in January: December of the year before
C16_Witness ==
    /\ Returned
    /\ resolve_call.year.isNull /\ resolve_call.month.isNull
    /\ resolve_call.today.month = 1
    /\ period.month = 12
    /\ period.year = resolve_call.today.year - 1

(***************************************************************************)
(* C17  Period bounds: a resolved month in 1..12 starts on day 1 and ends  *)
(* on the last calendar day of that month and year (February has 29 days   *)
(* exactly in leap years); a supplied month outside 1..12 makes the call   *)
(* fail.                                                                   *)
(***************************************************************************)
C17_PeriodBounds ==
    Returned =>
        LET leap == period.year % 400 = 0 \/ (period.year % 4 = 0 /\ period.year % 100 # 0)
            last == CASE period.month \in {1, 3, 5, 7, 8, 10, 12} -> 31
                      [] period.month \in {4, 6, 9, 11} -> 30
                      [] OTHER -> IF leap THEN 29 ELSE 28
        IN  /\ period.month \in 1..12 =>
                   /\ ~period.raised
                   /\ period.start_day = 1
                   /\ period.end_day = last
            /\ (~resolve_call.month.isNull /\ resolve_call.month.num \notin 1..12)
                   => period.raised

\* February of 1900, a century year that is no leap year
C17_Witness ==
    /\ Returned
    /\ period.year = 1900 /\ period.month = 2
    /\ period.start_day = 1 /\ period.end_day = 28

\* the stored sum of the remaining-after-sharing consumption code
EnergyBoughtStored ==
    StoredSum(AskedRows(LAMBDA r : r.obis_code = RemainingConsumption))

\* r (hundredths of a percent) is n / d * 100 at two decimal places: no
\* number of two decimals is nearer to the quotient
IsPercentOf(r, n, d) ==
    LET diff == r * d - n * 10000
        dist == IF diff < 0 THEN -diff ELSE diff
        size == IF d < 0 THEN -d ELSE d
    IN  2 * dist <= size

(***************************************************************************)
(* C11  Ratio definitions, as claimed: whenever the measured consumption   *)
(* of the month is not zero, self_sufficiency is                           *)
(* (measured_consumption - energy_bought) / measured_consumption * 100 and *)
(* energy_bought_ratio is energy_bought / measured_consumption * 100.      *)
(***************************************************************************)
C11_Original ==
    (ratios.called /\ ~ratios.empty /\ MeasuredConsumptionStored # 0) =>
        /\ IsPercentOf(ratios.self_sufficiency_ratio,
                       MeasuredConsumptionStored - EnergyBoughtStored,
                       MeasuredConsumptionStored)
        /\ IsPercentOf(ratios.energy_bought_ratio, EnergyBoughtStored,
                       MeasuredConsumptionStored)

(***************************************************************************)
(* C11  Ratio definitions, amended: the two ratios are the quotients (at   *)
(* two decimal places) whenever the measured consumption of the month is   *)
(* positive, and both are 0 whenever it is zero or negative.               *)
(***************************************************************************)
C11_RatioDefinitions ==
    (ratios.called /\ ~ratios.empty) =>
        /\ MeasuredConsumptionStored > 0 =>
               /\ IsPercentOf(ratios.self_sufficiency_ratio,
                              MeasuredConsumptionStored - EnergyBoughtStored,
                              MeasuredConsumptionStored)
               /\ IsPercentOf(ratios.energy_bought_ratio, EnergyBoughtStored,
                              MeasuredConsumptionStored)
        /\ MeasuredConsumptionStored <= 0 =>
               /\ ratios.self_sufficiency_ratio = 0
               /\ ratios.energy_bought_ratio = 0

\* measured consumption 100 kWh, 30 kWh bought: self-sufficiency 70 %
C11_Witness ==
    /\ ratios.called /\ ~ratios.empty
    /\ MeasuredConsumptionStored = 100000
    /\ EnergyBoughtStored = 30000
    /\ ratios.self_sufficiency_ratio = 7000
    /\ ratios.energy_bought_ratio = 3000

(***************************************************************************)
(* C18  Fetch-before-persist ordering: a step changes the detail or the    *)
(* summary table only when every fetch call of the run has returned, so a  *)
(* run that ends during fetching leaves the stored rows as they were.      *)
(***************************************************************************)
C18_FetchBeforePersist ==
    [][db' # db => (phase = "fetched" /\ Len(calls) = Len(Plan)
                      /\ Len(df_data) = Len(Plan))]_vars

\* a run over a store that holds rows was aborted by its second fetch call
C18_Witness ==
    /\ phase = "failed"
    /\ saveOutcome = "none"
    /\ Len(calls) = 2
    /\ Len(df_data) = 1
    /\ db.metering_data # <<>>

\* the catalog entry is an element of the list
InList(list, obis_info) == \E i \in 1..Len(list) : list[i] = obis_info

(***************************************************************************)
(* C19  Classification totality, as claimed: every entry of the catalog    *)
(* configuration is in exactly one of the two categories, consumption if   *)
(* the first character after the first colon is '1' and production if it   *)
(* is '2', whatever its place in the list and its label.                   *)
(***************************************************************************)
C19_Claim ==
    \A i \in 1..Len(config.obiscode) :
        LET obis_info == config.obiscode[i]
        IN  /\ InList(consumption_codes, obis_info) # InList(production_codes, obis_info)
            /\ InList(consumption_codes, obis_info) <=> first_digit(obis_info[1]) = "1"
            /\ InList(production_codes, obis_info) <=> first_digit(obis_info[1]) = "2"

\* the stored sum of the asked month over the codes with the digit after the colon
StoredOfDigit(digit) ==
    StoredSum(AskedRows(LAMBDA r : first_digit(r.obis_code) = digit))

(***************************************************************************)
(* C20  Category totals, as claimed: total_consumption is the sum of the   *)
(* stored values of the month over the codes with '1' after the first      *)
(* colon, total_production the sum over the codes with '2'.                *)
(***************************************************************************)
C20_Claim ==
    (ratios.called /\ ~ratios.empty) =>
        /\ ratios.total_consumption = StoredOfDigit("1")
        /\ ratios.total_production = StoredOfDigit("2")

\* the detail rows / the summary rows stored for a period and a code
DetailOf(year, month, obis_code) ==
    {i \in 1..Len(db.metering_data) :
        /\ db.metering_data[i].year = year
        /\ db.metering_data[i].month = month
        /\ db.metering_data[i].obis_code = obis_code}
SummaryOf(year, month, obis_code) ==
    {i \in 1..Len(db.monthly_summaries) :
        /\ db.monthly_summaries[i].year = year
        /\ db.monthly_summaries[i].month = month
        /\ db.monthly_summaries[i].obis_code = obis_code}

(***************************************************************************)
(* C21  Summary/detail consistency: in every state of the store, a period  *)
(* and code with a detail row has exactly one summary row, whose           *)
(* total_value is the sum of the values of those detail rows, and every    *)
(* summary row has a detail row of its period and code.                    *)
(***************************************************************************)
C21_SummaryDetail ==
    /\ \A i \in 1..Len(db.metering_data) :
           LET r == db.metering_data[i]
               summaries == SummaryOf(r.year, r.month, r.obis_code)
           IN  /\ Cardinality(summaries) = 1
               /\ \A n \in summaries :
                      db.monthly_summaries[n].total_value
                          = StoredSum(DetailOf(r.year, r.month, r.obis_code))
    /\ \A n \in 1..Len(db.monthly_summaries) :
           LET t == db.monthly_summaries[n]
           IN  DetailOf(t.year, t.month, t.obis_code) # {}

\* two months are stored, one of them with two detail rows under one summary
C21_Witness ==
    /\ \E i \in 1..Len(db.metering_data) :
           LET r == db.metering_data[i]
           IN  /\ Cardinality(DetailOf(r.year, r.month, r.obis_code)) = 2
               /\ \E n \in SummaryOf(r.year, r.month, r.obis_code) :
                      db.monthly_summaries[n].total_value = 60000
    /\ \E i, j \in 1..Len(db.metering_data) :
           db.metering_data[i].year # db.metering_data[j].year

\* the row stands for the metering point of the record
RowOfRecord(r, record) ==
    /\ r.entity_type = record.entity_type
    /\ r.name = record.entity_name
    /\ r.metering_point = record.meter_id

\* the table ends with the TOTAL row and then the DESCRIPTION row, all rows
\* before them are data rows, and the DESCRIPTION row carries for every code
\* column a description the catalog gives the code, or '' if it gives none
TrailerRows ==
    LET n == Len(wide_df.rows)
    IN  /\ n >= 3
        /\ wide_df.rows[n - 1].label = "TOTAL"
        /\ wide_df.rows[n].label = "DESCRIPTION"
        /\ \A i \in 1..(n - 2) : wide_df.rows[i].label = "data"
        /\ \A k \in 1..Len(wide_df.columns) :
               LET entries == {e \in 1..Len(config.obiscode) :
                                  config.obiscode[e][1] = wide_df.columns[k]}
               IN  IF entries = {}
                   THEN wide_df.rows[n].texts[k] = ""
                   ELSE \E e \in entries : wide_df.rows[n].texts[k] = config.obiscode[e][3]

\* exactly one data row for every metering point of the records
OneRowPerMeter(records) ==
    /\ \A j \in 1..Len(records) :
           Cardinality({i \in DataRowIndices :
                           RowOfRecord(wide_df.rows[i], records[j])}) = 1
    /\ \A i \in DataRowIndices :
           \E j \in 1..Len(records) : RowOfRecord(wide_df.rows[i], records[j])

(***************************************************************************)
(* C22  Wide-format row structure, as claimed: for a record set with an    *)
(* available record the table has exactly one data row per metering point  *)
(* (entity_type, entity_name, meter_id) of the input records, followed by  *)
(* the TOTAL and the DESCRIPTION row.                                      *)
(***************************************************************************)
C22_Original ==
    (Returned /\ AvailableInput # <<>>) => (OneRowPerMeter(df_data) /\ TrailerRows)

(***************************************************************************)
(* C22  Wide-format row structure, amended: exactly one data row per       *)
(* metering point that has an available record in the input, followed by   *)
(* the TOTAL and the DESCRIPTION row, which carries the catalog            *)
(* description of every code column.                                       *)
(***************************************************************************)
C22_RowStructure ==
    (Returned /\ AvailableInput # <<>>) => (OneRowPerMeter(AvailableInput) /\ TrailerRows)

\* three metering points were asked, one of them has no available record:
\* two data rows and the two trailer rows
C22_Witness ==
    /\ Returned
    /\ Cardinality({<<df_data[j].entity_type, df_data[j].entity_name, df_data[j].meter_id>> :
                       j \in 1..Len(df_data)}) = 3
    /\ Len(DataRows) = 2
    /\ Len(wide_df.rows) = 4
    /\ wide_df.rows[4].texts # <<>>

\* the rows of a table that belong to another period than the one of the run
OtherPeriods(table) ==
    SelectSeq(table, LAMBDA r : ~(r.year = period.year /\ r.month = period.month))

(***************************************************************************)
(* C23  Frame condition of upsert: when save_to_database(df, year, month)  *)
(* has ended, committed or not, the detail and summary rows of every other *)
(* period are the rows that were there when it began, so that every row    *)
(* the call wrote or removed belongs to (year, month).                     *)
(***************************************************************************)
C23_Frame ==
    SaveEnded =>
        /\ OtherPeriods(db.metering_data) = OtherPeriods(dbBefore.metering_data)
        /\ OtherPeriods(db.monthly_summaries) = OtherPeriods(dbBefore.monthly_summaries)

\* a committed save into a store that already held another month: the rows
\* of that month are still there, next to the new rows of the period
C23_Witness ==
    /\ saveOutcome = "committed"
    /\ OtherPeriods(dbBefore.metering_data) # <<>>
    /\ OtherPeriods(db.metering_data) = OtherPeriods(dbBefore.metering_data)
    /\ InPeriod(dbBefore.metering_data) = <<>>
    /\ InPeriod(db.metering_data) # <<>>
    /\ InPeriod(db.monthly_summaries) # <<>>

\* the code is an element of the block of columns
InBlock(block, obis_code) == \E k \in 1..Len(block) : block[k] = obis_code

(***************************************************************************)
(* C24  Column classification agreement, as claimed: every code with an    *)
(* available record in the input is exactly one code column of the wide    *)
(* table, in the consumption block if the first character after its first  *)
(* colon is '1' and in the production block if it is '2'.                  *)
(***************************************************************************)
C24_Claim ==
    (Returned /\ AvailableInput # <<>>) =>
        \A j \in 1..Len(AvailableInput) :
            LET obis_code == AvailableInput[j].obis_code
            IN  /\ Cardinality({k \in 1..Len(wide_df.columns) :
                                   wide_df.columns[k] = obis_code}) = 1
                /\ first_digit(obis_code) = "1" => InBlock(wide_df.consumption_cols, obis_code)
                /\ first_digit(obis_code) = "2" => InBlock(wide_df.production_cols, obis_code)

(***************************************************************************)
(* C25  Availability/value coupling, as claimed: a record that             *)
(* fetch_all_data emits is available exactly when it carries a value.      *)
(***************************************************************************)
C25_Claim ==
    \A j \in 1..Len(df_data) : df_data[j].data_available <=> ~df_data[j].value.isNull
====
